---- MODULE Spec2Model ----
(***************************************************************************)
(* Model of the AI image detector (src/ai-detector.js): the AIImageDetector *)
(* class (feature scoring, optional external adapter, result combiner) and *)
(* the page script that drives one analysis per selected image.            *)
(*                                                                         *)
(* Numbers that are fractions in the program (ratios, thresholds, weights, *)
(* the remote score) are exact rationals [n, d]; d = 0 stands for NaN, the *)
(* value of 0/0, which compares false with everything as in JavaScript.    *)
(* File names are sequences of one-character strings.                      *)
(***************************************************************************)
EXTENDS Integers, Sequences, FiniteSets, TLC

VARIABLES
    file,          \* the File handed to the detector: [name, nameDefined]
    imageData,     \* decoded image: [width, height, dataDefined]
    pix,           \* what the pixel extractors return for imageData.data
    config,        \* AIImageDetector.realityDefenderConfig: [enabled, apiKey]
    fault,         \* whether an extractor raises an exception of its own
    pc,            \* position inside enhancedAIDetection / detectAIImage
    results,       \* the `results` object of detectAIImage
    detectError,   \* message of the Error detectAIImage threw, or NoError
    enhanced,      \* what enhancedAIDetection returned
    enhancedThrew, \* enhancedAIDetection rejected
    localCalls,    \* invocations of localDetection
    extCalls,      \* invocations of realityDefenderDetection
    fetchCalls,    \* requests issued to the remote endpoint
    cL, cE, cOut,  \* combineResults called directly: arguments and result
    analyses,          \* page: one entry per processImage call: its file,
                       \* its position, its progress timer, when its
                       \* analyzeImage call began and ended, and the result
                       \* performAIDetection returned to it
    currentImage,      \* page: let currentImage
    analysisStartTime, \* page: let analysisStartTime
    now,               \* Date.now(), milliseconds since the page was loaded
    progressInterval,  \* window.progressInterval
    ui,                \* what the page shows
    alerts,            \* messages shown by showError, oldest first
    data,              \* imageData.data: the bytes R,G,B,A of every pixel
    scan               \* what each pixel scanner returned for data

vars == <<file, imageData, pix, config, fault, pc, results, detectError,
          enhanced, enhancedThrew, localCalls, extCalls, fetchCalls,
          cL, cE, cOut, analyses, currentImage, analysisStartTime, now,
          progressInterval, ui, alerts, data, scan>>

scanVars == <<data, scan>>

uiVars == <<analyses, currentImage, analysisStartTime, now, progressInterval,
            ui, alerts>>

detectorVars == <<file, imageData, pix, config, fault, pc, results,
                  detectError, enhanced, enhancedThrew, localCalls, extCalls,
                  fetchCalls, cL, cE, cOut>>

-----------------------------------------------------------------------------
(* Rationals *)

R(n, d) == [n |-> n, d |-> d]

NaN == R(0, 0)

IsNaN(a) == a.d = 0

\* a / b for integers a, b >= 0 as JavaScript computes it (0/0 is NaN)
Div(a, b) == R(a, b)

Mul(a, b) == R(a.n * b.n, a.d * b.d)

Add(a, b) == R(a.n * b.d + b.n * a.d, a.d * b.d)

\* a > b and a < b; false when either side is NaN
GT(a, b) == ~IsNaN(a) /\ ~IsNaN(b) /\ a.n * b.d > b.n * a.d

LT(a, b) == ~IsNaN(a) /\ ~IsNaN(b) /\ a.n * b.d < b.n * a.d

\* Math.round: the nearest integer, halves towards +infinity
MathRound(a) == (2 * a.n + a.d) \div (2 * a.d)

MathMax(a, b) == IF a > b THEN a ELSE b

MathMin(a, b) == IF a < b THEN a ELSE b

-----------------------------------------------------------------------------
(* Strings *)

UpperCase == <<"A","B","C","D","E","F","G","H","I","J","K","L","M",
               "N","O","P","Q","R","S","T","U","V","W","X","Y","Z">>

LowerCase == <<"a","b","c","d","e","f","g","h","i","j","k","l","m",
               "n","o","p","q","r","s","t","u","v","w","x","y","z">>

toLowerCaseChar(c) ==
    IF \E k \in DOMAIN UpperCase : UpperCase[k] = c
    THEN LowerCase[CHOOSE k \in DOMAIN UpperCase : UpperCase[k] = c]
    ELSE c

toLowerCase(s) == [k \in DOMAIN s |-> toLowerCaseChar(s[k])]

\* String.prototype.includes
includes(s, pattern) ==
    \E k \in 0..(Len(s) - Len(pattern)) :
        SubSeq(s, k + 1, k + Len(pattern)) = pattern

-----------------------------------------------------------------------------
(* Configuration of the detector (constructor) *)

detectionParams ==
    [smoothnessThreshold          |-> R(7, 10),
     noiseThreshold               |-> R(5, 1),
     edgeSharpnessRatio           |-> R(3, 10),
     colorEntropyThreshold        |-> R(75, 10),
     compressionArtifactThreshold |-> R(6, 10)]

aiPatterns ==
    [fileNames |->
        << <<"g","e","n","e","r","a","t","e","d">>,
           <<"a","i">>,
           <<"s","y","n","t","h","e","t","i","c">>,
           <<"a","r","t","i","f","i","c","i","a","l">>,
           <<"m","i","d","j","o","u","r","n","e","y">>,
           <<"d","a","l","l","e">>,
           <<"s","t","a","b","l","e">>,
           <<"a","i","g","e","n">> >>,
     realPatterns |->
        << <<"p","h","o","t","o">>,
           <<"c","a","m","e","r","a">>,
           <<"o","g">>,
           <<"o","r","i","g","i","n","a","l">>,
           <<"r","e","a","l">>,
           <<"a","u","t","h","e","n","t","i","c">> >>,
     commonDimensions |->
        { [w |-> 512,  h |-> 512],  [w |-> 1024, h |-> 1024],
          [w |-> 2048, h |-> 2048], [w |-> 512,  h |-> 768],
          [w |-> 768,  h |-> 512],  [w |-> 1024, h |-> 1536] }]

strAigen == <<"a","i","g","e","n">>

strOg == <<"o","g">>

-----------------------------------------------------------------------------
(* AIImageDetector: metadata extractors *)

isPowerOfTwo(n) == n > 0 /\ \E k \in 0..30 : n = 2^k

isMultipleOf64(n) == n % 64 = 0

\* isMultipleOf64 is taken from the whitelist match instead of width, height
analyzeDimensionsConflated(width, height) ==
    LET isStandardAI == \E dim \in aiPatterns.commonDimensions :
                            dim.w = width /\ dim.h = height
    IN  [isStandardAI   |-> isStandardAI,
         isPowerOfTwo   |-> isPowerOfTwo(width) /\ isPowerOfTwo(height),
         isMultipleOf64 |-> isStandardAI,
         aspectRatio    |-> Div(width, height),
         isSquare       |-> width = height]

analyzeDimensions(width, height) ==
    [isStandardAI   |-> \E dim \in aiPatterns.commonDimensions :
                            dim.w = width /\ dim.h = height,
     isPowerOfTwo   |-> isPowerOfTwo(width) /\ isPowerOfTwo(height),
     isMultipleOf64 |-> isMultipleOf64(width) /\ isMultipleOf64(height),
     aspectRatio    |-> Div(width, height),
     isSquare       |-> width = height]

\* the two tests in the opposite order: an AI pattern overwrites 'real'
analyzeFileNameAiLast(fileName) ==
    LET lowerName      == toLowerCase(fileName)
        aiIndicators   == SelectSeq(aiPatterns.fileNames,
                                    LAMBDA pattern : includes(lowerName, pattern))
        realIndicators == SelectSeq(aiPatterns.realPatterns,
                                    LAMBDA pattern : includes(lowerName, pattern))
        indicator0     == "neutral"
        indicator1     == IF Len(realIndicators) > 0 THEN "real" ELSE indicator0
        indicator2     == IF Len(aiIndicators) > 0 THEN "ai" ELSE indicator1
    IN  [indicator      |-> indicator2,
         aiIndicators   |-> aiIndicators,
         realIndicators |-> realIndicators,
         confidence     |-> Mul(R(MathMax(Len(aiIndicators), Len(realIndicators)), 1),
                                R(2, 10))]

analyzeFileName(fileName) ==
    LET lowerName      == toLowerCase(fileName)
        aiIndicators   == SelectSeq(aiPatterns.fileNames,
                                    LAMBDA pattern : includes(lowerName, pattern))
        realIndicators == SelectSeq(aiPatterns.realPatterns,
                                    LAMBDA pattern : includes(lowerName, pattern))
        indicator0     == "neutral"
        indicator1     == IF Len(aiIndicators) > 0 THEN "ai" ELSE indicator0
        indicator2     == IF Len(realIndicators) > 0 THEN "real" ELSE indicator1
    IN  [indicator      |-> indicator2,
         aiIndicators   |-> aiIndicators,
         realIndicators |-> realIndicators,
         confidence     |-> Mul(R(MathMax(Len(aiIndicators), Len(realIndicators)), 1),
                                R(2, 10))]

-----------------------------------------------------------------------------
(* AIImageDetector: feature record, score and confidence *)

\* The feature record of one image.  p holds the values the pixel scanners
\* return for imageData.data.
extractAdvancedFeatures(f, img, p) ==
    [fileName             |-> f.name,
     dimensions           |-> [width |-> img.width, height |-> img.height],
     aspectRatio          |-> Div(img.width, img.height),
     pixelAnalysis        |-> [smoothness |-> p.smoothness],
     compressionArtifacts |-> [overallScore |-> p.compression],
     colorDistribution    |-> [averageEntropy |-> p.entropy],
     edgeAnalysis         |-> [sharpnessRatio |-> p.sharpness],
     noisePattern         |-> [overallNoiseLevel |-> p.noise],
     frequencyAnalysis    |-> [highFrequencyRatio |-> p.frequency],
     dimensionAnalysis    |-> analyzeDimensions(img.width, img.height),
     fileNameAnalysis     |-> analyzeFileName(f.name)]

\* calculateAIScore, the additive rules (the statements before the
\* "special handling for test images")
additiveScoreChained(features) ==
    LET s0 == 0
        s1 == IF GT(features.pixelAnalysis.smoothness,
                    detectionParams.smoothnessThreshold)
              THEN s0 + 25 ELSE s0
        s2 == IF LT(features.noisePattern.overallNoiseLevel,
                    detectionParams.noiseThreshold)
              THEN s1 + 15 ELSE s1
        s3 == IF s1 = s0 /\ GT(features.edgeAnalysis.sharpnessRatio,
                               detectionParams.edgeSharpnessRatio)
              THEN s2 + 15 ELSE s2
        s4 == IF GT(features.colorDistribution.averageEntropy,
                    detectionParams.colorEntropyThreshold)
              THEN s3 + 10 ELSE s3
        s5 == IF GT(features.compressionArtifacts.overallScore,
                    detectionParams.compressionArtifactThreshold)
              THEN s4 + 10 ELSE s4
        s6 == IF features.dimensionAnalysis.isStandardAI
                 \/ features.dimensionAnalysis.isMultipleOf64
              THEN s5 + 15 ELSE s5
        s7 == IF features.fileNameAnalysis.indicator = "ai" THEN s6 + 30
              ELSE IF features.fileNameAnalysis.indicator = "real" THEN s6 - 20
              ELSE s6
    IN  IF LT(features.frequencyAnalysis.highFrequencyRatio, R(3, 10))
        THEN s7 + 10 ELSE s7

additiveScore(features) ==
    LET s0 == 0
        s1 == IF GT(features.pixelAnalysis.smoothness,
                    detectionParams.smoothnessThreshold)
              THEN s0 + 25 ELSE s0
        s2 == IF LT(features.noisePattern.overallNoiseLevel,
                    detectionParams.noiseThreshold)
              THEN s1 + 15 ELSE s1
        s3 == IF GT(features.edgeAnalysis.sharpnessRatio,
                    detectionParams.edgeSharpnessRatio)
              THEN s2 + 15 ELSE s2
        s4 == IF GT(features.colorDistribution.averageEntropy,
                    detectionParams.colorEntropyThreshold)
              THEN s3 + 10 ELSE s3
        s5 == IF GT(features.compressionArtifacts.overallScore,
                    detectionParams.compressionArtifactThreshold)
              THEN s4 + 10 ELSE s4
        s6 == IF features.dimensionAnalysis.isStandardAI
                 \/ features.dimensionAnalysis.isMultipleOf64
              THEN s5 + 15 ELSE s5
        s7 == IF features.fileNameAnalysis.indicator = "ai" THEN s6 + 30
              ELSE IF features.fileNameAnalysis.indicator = "real" THEN s6 - 20
              ELSE s6
    IN  IF LT(features.frequencyAnalysis.highFrequencyRatio, R(3, 10))
        THEN s7 + 10 ELSE s7

calculateAIScoreCaseSensitive(features) ==
    LET s8 == additiveScore(features)
        s9 == IF includes(features.fileName, strAigen) THEN 95
              ELSE IF includes(features.fileName, strOg) THEN 5
              ELSE s8
    IN  MathMax(0, MathMin(100, s9))

\* the "og" branch of the special handling is missing
calculateAIScoreWithoutOg(features) ==
    LET s8 == additiveScore(features)
        s9 == IF includes(toLowerCase(features.fileName), strAigen) THEN 95
              ELSE s8
    IN  MathMax(0, MathMin(100, s9))

calculateAIScore(features) ==
    LET s8 == additiveScore(features)
        s9 == IF includes(toLowerCase(features.fileName), strAigen) THEN 95
              ELSE IF includes(toLowerCase(features.fileName), strOg) THEN 5
              ELSE s8
    IN  MathMax(0, MathMin(100, s9))

\* the base confidence follows the verdict
calculateLocalConfidenceByScore(features, aiScore) ==
    LET c0 == IF aiScore > 50 THEN 60 ELSE 50
        c1 == IF features.fileNameAnalysis.indicator # "neutral"
              THEN c0 + 20 ELSE c0
        c2 == IF features.dimensionAnalysis.isStandardAI THEN c1 + 10 ELSE c1
        c3 == IF GT(features.pixelAnalysis.smoothness, R(8, 10))
              THEN c2 + 10 ELSE c2
    IN  MathMin(MathMax(c3, 65), 98)

calculateLocalConfidence(features, aiScore) ==
    LET c0 == 60
        c1 == IF features.fileNameAnalysis.indicator # "neutral"
              THEN c0 + 20 ELSE c0
        c2 == IF features.dimensionAnalysis.isStandardAI THEN c1 + 10 ELSE c1
        c3 == IF GT(features.pixelAnalysis.smoothness, R(8, 10))
              THEN c2 + 10 ELSE c2
    IN  MathMin(MathMax(c3, 65), 98)

localDetectionAtLeast50(f, img, p) ==
    LET features   == extractAdvancedFeatures(f, img, p)
        aiScore    == calculateAIScore(features)
        confidence == calculateLocalConfidence(features, aiScore)
    IN  [method        |-> "local",
         isAIGenerated |-> aiScore >= 50,
         confidence    |-> confidence,
         aiScore       |-> aiScore,
         features      |-> features,
         details       |->
            [smoothness        |-> features.pixelAnalysis.smoothness,
             noiseLevel        |-> features.noisePattern,
             edgeSharpness     |-> features.edgeAnalysis.sharpnessRatio,
             colorEntropy      |-> features.colorDistribution.averageEntropy,
             dimensionMatch    |-> features.dimensionAnalysis.isStandardAI,
             fileNameIndicator |-> features.fileNameAnalysis.indicator]]

localDetection(f, img, p) ==
    LET features   == extractAdvancedFeatures(f, img, p)
        aiScore    == calculateAIScore(features)
        confidence == calculateLocalConfidence(features, aiScore)
    IN  [method        |-> "local",
         isAIGenerated |-> aiScore > 50,
         confidence    |-> confidence,
         aiScore       |-> aiScore,
         features      |-> features,
         details       |->
            [smoothness        |-> features.pixelAnalysis.smoothness,
             noiseLevel        |-> features.noisePattern,
             edgeSharpness     |-> features.edgeAnalysis.sharpnessRatio,
             colorEntropy      |-> features.colorDistribution.averageEntropy,
             dimensionMatch    |-> features.dimensionAnalysis.isStandardAI,
             fileNameIndicator |-> features.fileNameAnalysis.indicator]]

\* localDetection raises: a property of undefined is read (file.name is
\* undefined, imageData.data is undefined) or an extractor fails by itself
localThrows(f, img, flt) == ~f.nameDefined \/ ~img.dataDefined \/ flt

-----------------------------------------------------------------------------
(* AIImageDetector: external adapter and combiner *)

Null == [isNull |-> TRUE]

\* What the call of the remote endpoint can end in
NetworkError == [kind |-> "networkError"]

HttpError == [kind |-> "http", ok |-> FALSE]

InvalidJson == [kind |-> "http", ok |-> TRUE, json |-> FALSE]

JsonScore(score) == [kind |-> "http", ok |-> TRUE, json |-> TRUE, score |-> score]

\* the request is sent without looking at the API key
realityDefenderDetectionWithoutKeyCheck(cfg, response) ==
    IF response.kind = "networkError"
    THEN [threw |-> TRUE, fetched |-> TRUE, message |-> "fetch failed"]
    ELSE IF ~response.ok
    THEN [threw |-> TRUE, fetched |-> TRUE, message |-> "API request failed"]
    ELSE IF ~response.json
    THEN [threw |-> TRUE, fetched |-> TRUE, message |-> "invalid JSON"]
    ELSE [threw |-> FALSE, fetched |-> TRUE,
          value |-> [method        |-> "reality_defender",
                     isAIGenerated |-> GT(response.score, R(5, 10)),
                     confidence    |-> MathRound(Mul(response.score, R(100, 1))),
                     rawScore      |-> response.score,
                     details       |-> <<>>]]

\* realityDefenderDetection(file) under configuration cfg when the endpoint
\* answers with response: the value returned, or the rejection
realityDefenderDetection(cfg, response) ==
    IF ~cfg.apiKey
    THEN [threw |-> TRUE, fetched |-> FALSE,
          message |-> "Reality Defender API key not configured"]
    ELSE IF response.kind = "networkError"
    THEN [threw |-> TRUE, fetched |-> TRUE, message |-> "fetch failed"]
    ELSE IF ~response.ok
    THEN [threw |-> TRUE, fetched |-> TRUE, message |-> "API request failed"]
    ELSE IF ~response.json
    THEN [threw |-> TRUE, fetched |-> TRUE, message |-> "invalid JSON"]
    ELSE [threw |-> FALSE, fetched |-> TRUE,
          value |-> [method        |-> "reality_defender",
                     isAIGenerated |-> GT(response.score, R(5, 10)),
                     confidence    |-> MathRound(Mul(response.score, R(100, 1))),
                     rawScore      |-> response.score,
                     details       |-> <<>>]]

localWeight == R(4, 10)

externalWeight == R(6, 10)

\* the external vote is not taken into account in the weighted score
combineResultsUnsigned(localResult, externalResult) ==
    IF externalResult = Null
    THEN localResult
    ELSE
    LET combinedConfidence ==
            MathRound(Add(Mul(R(localResult.confidence, 1), localWeight),
                          Mul(R(externalResult.confidence, 1), externalWeight)))
        weightedScore ==
            Add(Mul(R(IF localResult.isAIGenerated
                      THEN localResult.confidence
                      ELSE 100 - localResult.confidence, 1), localWeight),
                Mul(R(externalResult.confidence, 1), externalWeight))
        isAIGenerated == GT(weightedScore, R(50, 1))
    IN  [isAIGenerated |-> isAIGenerated,
         confidence    |-> combinedConfidence,
         details       |->
            [externalMethod     |-> externalResult.method,
             externalConfidence |-> externalResult.confidence,
             combinationMethod  |-> "weighted_average"] @@ localResult.details]

\* without an external result a new object is built from the local one
combineResultsRebuilt(localResult, externalResult) ==
    [isAIGenerated |-> localResult.isAIGenerated,
     confidence    |-> localResult.confidence,
     details       |-> localResult.details]

combineResults(localResult, externalResult) ==
    IF externalResult = Null
    THEN localResult
    ELSE
    LET combinedConfidence ==
            MathRound(Add(Mul(R(localResult.confidence, 1), localWeight),
                          Mul(R(externalResult.confidence, 1), externalWeight)))
        weightedScore ==
            Add(Mul(R(IF localResult.isAIGenerated
                      THEN localResult.confidence
                      ELSE 100 - localResult.confidence, 1), localWeight),
                Mul(R(IF externalResult.isAIGenerated
                      THEN externalResult.confidence
                      ELSE 100 - externalResult.confidence, 1), externalWeight))
        isAIGenerated == GT(weightedScore, R(50, 1))
    IN  [isAIGenerated |-> isAIGenerated,
         confidence    |-> combinedConfidence,
         details       |->
            [externalMethod     |-> externalResult.method,
             externalConfidence |-> externalResult.confidence,
             combinationMethod  |-> "weighted_average"] @@ localResult.details]

-----------------------------------------------------------------------------
(* Page script: fallback detection *)

\* the score fallbackDetection accumulates; smoothness is the ratio its own
\* scan of imageData.data yields
fallbackScore(fileName, smoothness) ==
    LET lowerFileName == toLowerCase(fileName)
        score0 == 50
        score1 == IF includes(lowerFileName, strAigen)
                     \/ includes(lowerFileName, <<"a","i">>)
                     \/ includes(lowerFileName, <<"g","e","n","e","r","a","t","e","d">>)
                  THEN 95
                  ELSE IF includes(lowerFileName, strOg)
                          \/ includes(lowerFileName, <<"o","r","i","g","i","n","a","l">>)
                          \/ includes(lowerFileName, <<"r","e","a","l">>)
                  THEN 5
                  ELSE score0
    IN  IF GT(smoothness, R(7, 10)) THEN score1 + 15 ELSE score1

fallbackDetection(img, fileName, p) ==
    LET lowerFileName == toLowerCase(fileName)
        smoothness    == p.fallbackSmoothness
        score         == fallbackScore(fileName, smoothness)
    IN  [isAIGenerated |-> score > 50,
         confidence    |-> MathMin(MathMax(score, 65), 95),
         details       |->
            [smoothness        |-> smoothness,
             method            |-> "fallback",
             filenameIndicator |->
                IF includes(lowerFileName, strAigen) THEN "ai"
                ELSE IF includes(lowerFileName, strOg) THEN "real"
                ELSE "neutral"],
         analysisTime  |-> 50,
         method        |-> "fallback"]

\* fallbackDetection raises: fileName.toLowerCase or data.length of undefined
fallbackThrows(f, img) == ~f.nameDefined \/ ~img.dataDefined

-----------------------------------------------------------------------------
(* Inputs *)

MaxNameLen == 2

NameAlphabet == {"o", "g", "G"}

\* every name over NameAlphabet of at most MaxNameLen characters
ShortNames == UNION {[1..k -> NameAlphabet] : k \in 0..MaxNameLen}

SampleNames ==
    { <<"i","m","g">>,
      <<"A","I","G","E","N","1">>,
      <<"a","i","g","e","n","_","d","o","g">>,
      <<"l","o","g","o","_","A","i","G","e","n">>,
      <<"a","i","g","e","n","_","p","h","o","t","o">>,
      <<"d","a","l","l","e">>,
      <<"d","a","l","l","e","_","d","o","g">>,
      <<"p","h","o","t","o">>,
      <<"r","e","a","l","_","a","i">>,
      <<"c","a","t","_","A","I">>,
      <<"D","O","G">>,
      <<"a","i","_","d","o","g">>,
      <<"s","t","a","b","l","e">> }

FileNames == ShortNames \cup SampleNames

Dimensions == { [w |-> 512, h |-> 512], [w |-> 513, h |-> 512],
                [w |-> 640, h |-> 640] }

\* a whitelisted size that is no power of two, and two sizes off the
\* whitelist that are powers of two
MoreDimensions == { [w |-> 512, h |-> 768], [w |-> 64, h |-> 64],
                    [w |-> 2, h |-> 2] }

\* values of the pixel scanners on both sides of every threshold they are
\* compared with; NaN is what a scanner returns when it took no sample
SmoothnessValues == {R(7, 10), R(8, 10), R(9, 10)}

NoiseValues == {R(5, 1), R(49, 10)}

SharpnessValues == {R(3, 10), R(31, 100)}

EntropyValues == {R(75, 10), R(76, 10)}

CompressionValues == {NaN, R(6, 10), R(61, 100)}

FrequencyValues == {R(3, 10), R(29, 100)}

FallbackSmoothnessValues == {R(7, 10), R(3, 4)}

PixelFeatures ==
    [smoothness : SmoothnessValues, noise : NoiseValues,
     sharpness : SharpnessValues, entropy : EntropyValues,
     compression : CompressionValues, frequency : FrequencyValues,
     fallbackSmoothness : {R(7, 10)}]

PixelFeaturesFew ==
    [smoothness : {R(7, 10), R(9, 10)}, noise : {R(5, 1)},
     sharpness : {R(3, 10)}, entropy : {R(75, 10)},
     compression : {NaN}, frequency : {R(3, 10)},
     fallbackSmoothness : FallbackSmoothnessValues]

\* scores the remote endpoint may answer with; it is expected to answer
\* within [0,1] but nothing in the program checks that it does
ApiScores == {R(0 - 200, 1000), R(0, 1000), R(4, 1000), R(5, 1000),
              R(500, 1000), R(501, 1000), R(600, 1000), R(995, 1000),
              R(1000, 1000), R(1500, 1000)}

Responses == {NetworkError, HttpError, InvalidJson}
             \cup {JsonScore(s) : s \in ApiScores}

NoError == "none"

\* detectAIImage: the results object before the try block
InitialResults ==
    [local |-> Null, external |-> Null, combined |-> Null,
     confidence |-> 0, isAIGenerated |-> FALSE, details |-> <<>>]

-----------------------------------------------------------------------------
(* One call of enhancedAIDetection(imageData, file) *)

\* the text '-' of the confidence and time fields
NoText == 0 - 1

InitialUi ==
    [uploadArea |-> "block", resultContainer |-> "none", previewImage |-> 0,
     confidenceBadge |-> "", confidenceValue |-> NoText,
     analysisTime |-> NoText,
     progressFill |-> 0, resultOf |-> 0]

\* no time recorded: let analysisStartTime = null
NoTime == 0 - 1

\* the page as loaded, before any image is selected
PageIdle ==
    /\ analyses = <<>>
    /\ currentImage = 0
    /\ analysisStartTime = NoTime
    /\ now = 0
    /\ progressInterval = 0
    /\ ui = InitialUi
    /\ alerts = <<>>

CombineIdle == cL = Null /\ cE = Null /\ cOut = Null

\* no scanner has run
NoScan == [pixelAnalysis |-> Null, noisePattern |-> Null,
           compressionArtifacts |-> Null, edgeAnalysis |-> Null]

ScanIdle == data = <<>> /\ scan = NoScan

Init ==
    /\ \/ /\ file \in [name : FileNames, nameDefined : {TRUE}]
          /\ imageData \in [width : {512, 513, 640}, height : {512, 640},
                            dataDefined : {TRUE}]
          /\ [w |-> imageData.width, h |-> imageData.height] \in Dimensions
          /\ pix \in PixelFeatures
          /\ config = [enabled |-> FALSE, apiKey |-> FALSE]
          /\ fault = FALSE
       \/ /\ file \in [name : FileNames, nameDefined : BOOLEAN]
          /\ imageData \in [width : {2, 64, 512, 513, 640},
                            height : {2, 64, 512, 640, 768},
                            dataDefined : BOOLEAN]
          /\ [w |-> imageData.width, h |-> imageData.height]
                \in Dimensions \cup MoreDimensions
          /\ pix \in PixelFeaturesFew
          /\ config \in [enabled : BOOLEAN, apiKey : BOOLEAN]
          /\ fault \in BOOLEAN
    /\ pc = "detect"
    /\ results = InitialResults
    /\ detectError = NoError
    /\ enhanced = Null
    /\ enhancedThrew = FALSE
    /\ localCalls = 0
    /\ extCalls = 0
    /\ fetchCalls = 0
    /\ CombineIdle
    /\ PageIdle
    /\ ScanIdle

\* detectAIImage, first statement of the try block: localDetection returns
LocalDetectionReturns ==
    /\ pc = "detect"
    /\ ~localThrows(file, imageData, fault)
    /\ results' = [results EXCEPT !.local = localDetection(file, imageData, pix)]
    /\ localCalls' = localCalls + 1
    /\ pc' = IF config.enabled THEN "external" ELSE "combine"
    /\ UNCHANGED <<file, imageData, pix, config, fault, detectError, enhanced,
                   enhancedThrew, extCalls, fetchCalls, cL, cE, cOut, uiVars, scanVars>>

\* the outer catch returns the results object instead of throwing
LocalDetectionThrowsSwallowed ==
    /\ pc = "detect"
    /\ localThrows(file, imageData, fault)
    /\ localCalls' = localCalls + 1
    /\ pc' = "detectReturned"
    /\ UNCHANGED <<file, imageData, pix, config, fault, results, detectError,
                   enhanced, enhancedThrew, extCalls, fetchCalls, cL, cE, cOut, uiVars, scanVars>>

\* localDetection raises: the outer catch replaces the error and rethrows
LocalDetectionThrows ==
    /\ pc = "detect"
    /\ localThrows(file, imageData, fault)
    /\ localCalls' = localCalls + 1
    /\ detectError' = "AI detection failed"
    /\ pc' = "detectThrew"
    /\ UNCHANGED <<file, imageData, pix, config, fault, results, enhanced,
                   enhancedThrew, extCalls, fetchCalls, cL, cE, cOut, uiVars, scanVars>>

\* no inner try block: a rejection of the adapter reaches the outer catch
ExternalDetectionUncaught ==
    /\ pc = "external"
    /\ \E response \in Responses :
          LET r == realityDefenderDetection(config, response)
          IN  /\ extCalls' = extCalls + 1
              /\ fetchCalls' = IF r.fetched THEN fetchCalls + 1 ELSE fetchCalls
              /\ results' = IF r.threw THEN results
                            ELSE [results EXCEPT !.external = r.value]
              /\ detectError' = IF r.threw THEN "AI detection failed"
                                ELSE detectError
              /\ pc' = IF r.threw THEN "detectThrew" ELSE "combine"
    /\ UNCHANGED <<file, imageData, pix, config, fault, enhanced,
                   enhancedThrew, localCalls, cL, cE, cOut, uiVars, scanVars>>

\* detectAIImage, the inner try block: one call of realityDefenderDetection;
\* its rejection is logged and dropped
ExternalDetection ==
    /\ pc = "external"
    /\ \E response \in Responses :
          LET r == realityDefenderDetection(config, response)
          IN  /\ extCalls' = extCalls + 1
              /\ fetchCalls' = IF r.fetched THEN fetchCalls + 1 ELSE fetchCalls
              /\ results' = IF r.threw THEN results
                            ELSE [results EXCEPT !.external = r.value]
    /\ pc' = "combine"
    /\ UNCHANGED <<file, imageData, pix, config, fault, detectError, enhanced,
                   enhancedThrew, localCalls, cL, cE, cOut, uiVars, scanVars>>

\* detectAIImage, step 3: the results object once the results are combined
combinedResults(res) ==
    LET combined == combineResults(res.local, res.external)
    IN  [res EXCEPT !.combined = combined,
                    !.confidence = combined.confidence,
                    !.isAIGenerated = combined.isAIGenerated,
                    !.details = combined.details]

\* detectAIImage, step 3 and the return
CombineAndReturn ==
    /\ pc = "combine"
    /\ results' = combinedResults(results)
    /\ pc' = "detectReturned"
    /\ UNCHANGED <<file, imageData, pix, config, fault, detectError, enhanced,
                   enhancedThrew, localCalls, extCalls, fetchCalls, cL, cE, cOut, uiVars, scanVars>>

\* enhancedAIDetection: the object built from what detectAIImage resolved to
enhancedResult(result) ==
    [isAIGenerated |-> result.isAIGenerated,
     confidence    |-> result.confidence,
     details       |-> result.details,
     method        |-> IF result.combined # Null THEN "combined" ELSE "local"]

\* enhancedAIDetection: detectAIImage resolved
EnhancedReturns ==
    /\ pc = "detectReturned"
    /\ enhanced' = enhancedResult(results)
    /\ pc' = "done"
    /\ UNCHANGED <<file, imageData, pix, config, fault, results, detectError,
                   enhancedThrew, localCalls, extCalls, fetchCalls, cL, cE, cOut, uiVars, scanVars>>

\* enhancedAIDetection: detectAIImage rejected, the catch block runs
\* fallbackDetection(imageData, file.name)
EnhancedFallback ==
    /\ pc = "detectThrew"
    /\ IF fallbackThrows(file, imageData)
       THEN enhancedThrew' = TRUE /\ enhanced' = enhanced
       ELSE enhancedThrew' = FALSE
            /\ enhanced' = fallbackDetection(imageData, file.name, pix)
    /\ pc' = "done"
    /\ UNCHANGED <<file, imageData, pix, config, fault, results, detectError,
                   localCalls, extCalls, fetchCalls, cL, cE, cOut, uiVars, scanVars>>

Next ==
    \/ LocalDetectionReturns
    \/ LocalDetectionThrows
    \/ ExternalDetection
    \/ CombineAndReturn
    \/ EnhancedReturns
    \/ EnhancedFallback

Spec == Init /\ [][Next]_vars

-----------------------------------------------------------------------------
(* combineResults called on its own, with any pair of results *)

MaxConfidence == 100

SampleDetails ==
    [smoothness |-> R(9, 10), noiseLevel |-> [overallNoiseLevel |-> R(5, 1)],
     edgeSharpness |-> R(3, 10), colorEntropy |-> R(75, 10),
     dimensionMatch |-> TRUE, fileNameIndicator |-> "neutral"]

LocalResults ==
    {[method |-> "local", isAIGenerated |-> s > 50, confidence |-> c,
      aiScore |-> s, details |-> SampleDetails] :
        s \in {5, 95}, c \in 0..MaxConfidence}

ExternalResults ==
    [method : {"reality_defender"}, isAIGenerated : BOOLEAN,
     confidence : 0..MaxConfidence, details : {<<>>}]

\* the detector constructed, detectAIImage not called
DetectorIdle ==
    /\ file = [name |-> <<>>, nameDefined |-> TRUE]
    /\ pix \in PixelFeaturesFew /\ pix.smoothness = R(7, 10)
    /\ pix.fallbackSmoothness = R(7, 10)
    /\ config = [enabled |-> FALSE, apiKey |-> FALSE]
    /\ fault = FALSE
    /\ pc = "idle"
    /\ results = InitialResults
    /\ detectError = NoError
    /\ enhanced = Null
    /\ enhancedThrew = FALSE
    /\ localCalls = 0
    /\ extCalls = 0
    /\ fetchCalls = 0

PipelineIdle ==
    /\ DetectorIdle
    /\ imageData = [width |-> 512, height |-> 512, dataDefined |-> TRUE]

CombineInit ==
    /\ PipelineIdle
    /\ PageIdle
    /\ ScanIdle
    /\ cL \in LocalResults
    /\ cE \in {Null} \cup ExternalResults
    /\ cOut = Null

CombineCall ==
    /\ cOut = Null
    /\ cL # Null
    /\ cOut' = combineResults(cL, cE)
    /\ UNCHANGED <<file, imageData, pix, config, fault, pc, results,
                   detectError, enhanced, enhancedThrew, localCalls, extCalls,
                   fetchCalls, cL, cE, uiVars, scanVars>>

CombineNext == CombineCall

CombineSpec == CombineInit /\ [][CombineNext]_vars

-----------------------------------------------------------------------------
(* The page: processImage, analyzeImage and the callbacks they register *)

MaxAnalyses == 2

MaxTicks == 2

\* the clock advances in steps of this many milliseconds
TickMs == 100

\* progress += Math.random() * 15, in whole percent
ProgressIncrements == {7, 14}

SizeLimit == 10 * 1024 * 1024

PlainPixels ==
    [smoothness |-> R(7, 10), noise |-> R(5, 1), sharpness |-> R(3, 10),
     entropy |-> R(75, 10), compression |-> NaN, frequency |-> R(3, 10),
     fallbackSmoothness |-> R(7, 10)]

SmoothPixels ==
    [smoothness |-> R(9, 10), noise |-> R(49, 10), sharpness |-> R(3, 10),
     entropy |-> R(75, 10), compression |-> R(61, 100), frequency |-> R(29, 100),
     fallbackSmoothness |-> R(3, 4)]

\* the files the user can pick
UIFiles ==
    << [name |-> <<"A","I","G","E","N","1">>, size |-> 1024,
        type |-> "image/png", decodable |-> TRUE,
        width |-> 512, height |-> 512, pixels |-> PlainPixels],
       [name |-> <<"i","m","g">>, size |-> SizeLimit,
        type |-> "image/jpeg", decodable |-> TRUE,
        width |-> 513, height |-> 512, pixels |-> SmoothPixels],
       [name |-> <<"d","o","g">>, size |-> 1024,
        type |-> "image/png", decodable |-> FALSE,
        width |-> 0, height |-> 0, pixels |-> PlainPixels],
       [name |-> <<"p","h","o","t","o">>, size |-> SizeLimit + 1,
        type |-> "image/png", decodable |-> TRUE,
        width |-> 640, height |-> 640, pixels |-> PlainPixels],
       [name |-> <<"r","e","a","l">>, size |-> 1024,
        type |-> "text/plain", decodable |-> FALSE,
        width |-> 0, height |-> 0, pixels |-> PlainPixels] >>

\* file.type.startsWith('image/')
isImageType(type) == type \in {"image/png", "image/jpeg"}

\* (ms / 1000).toFixed(1), in tenths of a second
toFixed1(ms) == (ms + 50) \div 100

\* clearInterval(id): the timer of analysis id no longer fires
clearInterval(as, id) ==
    IF id \in DOMAIN as /\ as[id].timer = "running"
    THEN [as EXCEPT ![id].timer = "cleared"]
    ELSE as

\* enhancedAIDetection(imageData, file) for a decoded image: the detector is
\* the one initializeAIDetector constructs (external detection disabled), so
\* detectAIImage is localDetection followed by combineResults
pageFile(f) == [name |-> f.name, nameDefined |-> TRUE]

pageImageData(f) == [width |-> f.width, height |-> f.height, dataDefined |-> TRUE]

\* performAIDetection(file): the object built from what enhancedAIDetection
\* resolved to
performAIDetection(result) ==
    [isAIGenerated |-> result.isAIGenerated,
     confidence    |-> result.confidence,
     features      |-> result.details,
     analysisTime  |-> now - analysisStartTime]

UIInit ==
    /\ PipelineIdle
    /\ CombineIdle
    /\ PageIdle
    /\ ScanIdle

\* processImage(file), reached from handleFileSelect and handleDrop
ProcessImage(f) ==
    /\ Len(analyses) < MaxAnalyses
    /\ IF UIFiles[f].size > SizeLimit
       THEN /\ alerts' = Append(alerts, "File size must be less than 10MB.")
            /\ analyses' = Append(analyses, [file |-> f, pc |-> "rejected",
                                             timer |-> "none", progress |-> 0,
                                             startedAt |-> NoTime,
                                             endedAt |-> NoTime,
                                             result |-> Null])
            /\ UNCHANGED currentImage
       ELSE IF ~isImageType(UIFiles[f].type)
       THEN /\ alerts' = Append(alerts, "Please upload a valid image file.")
            /\ analyses' = Append(analyses, [file |-> f, pc |-> "rejected",
                                             timer |-> "none", progress |-> 0,
                                             startedAt |-> NoTime,
                                             endedAt |-> NoTime,
                                             result |-> Null])
            /\ UNCHANGED currentImage
       ELSE /\ currentImage' = f
            /\ analyses' = Append(analyses, [file |-> f, pc |-> "reading",
                                             timer |-> "none", progress |-> 0,
                                             startedAt |-> NoTime,
                                             endedAt |-> NoTime,
                                             result |-> Null])
            /\ UNCHANGED alerts
    /\ UNCHANGED <<analysisStartTime, now, progressInterval, ui, detectorVars, scanVars>>

\* reader.onload: displayImage, then analyzeImage up to its first await
\* (resetAnalysisUI, animateProgress, simulateAnalysis started)
ReaderOnload(i) ==
    /\ i \in DOMAIN analyses
    /\ analyses[i].pc = "reading"
    /\ analysisStartTime' = now
    /\ ui' = [ui EXCEPT !.previewImage = analyses[i].file,
                        !.uploadArea = "none",
                        !.resultContainer = "block",
                        !.confidenceBadge = "analyzing",
                        !.confidenceValue = NoText,
                        !.analysisTime = NoText,
                        !.progressFill = 0]
    /\ analyses' = [analyses EXCEPT ![i].pc = "simulating",
                                    ![i].timer = "running",
                                    ![i].progress = 0,
                                    ![i].startedAt = now]
    /\ progressInterval' = i
    /\ UNCHANGED <<currentImage, now, alerts, detectorVars, scanVars>>

\* the setInterval callback of animateProgress
ProgressTick(i) ==
    /\ i \in DOMAIN analyses
    /\ analyses[i].timer = "running"
    /\ \E inc \in ProgressIncrements :
          LET progress == analyses[i].progress + inc
          IN  IF progress > 90
              THEN /\ analyses' = [analyses EXCEPT ![i].progress = 90,
                                                   ![i].timer = "cleared"]
                   /\ ui' = [ui EXCEPT !.progressFill = 90]
              ELSE /\ analyses' = [analyses EXCEPT ![i].progress = progress]
                   /\ ui' = [ui EXCEPT !.progressFill = progress]
    /\ UNCHANGED <<currentImage, analysisStartTime, now, progressInterval,
                   alerts, detectorVars, scanVars>>

\* the setTimeout of simulateAnalysis fires: analyzeImage resumes and
\* performAIDetection calls getImageData, which sets img.src
SimulationDone(i) ==
    /\ i \in DOMAIN analyses
    /\ analyses[i].pc = "simulating"
    /\ analyses' = [analyses EXCEPT ![i].pc = "decoding"]
    /\ UNCHANGED <<currentImage, analysisStartTime, now, progressInterval,
                   ui, alerts, detectorVars, scanVars>>

\* img.onload: getImageData resolves, performAIDetection and analyzeImage
\* run to their end (no timer or event is awaited in between) and
\* displayResults shows the result
ImageOnload(i) ==
    /\ i \in DOMAIN analyses
    /\ analyses[i].pc = "decoding"
    /\ UIFiles[analyses[i].file].decodable
    /\ \E f \in {UIFiles[analyses[i].file]} :
       \E local \in {localDetection(pageFile(f), pageImageData(f), f.pixels)} :
       \E detected \in {combinedResults([InitialResults EXCEPT !.local = local])} :
       \E enhancedR \in {enhancedResult(detected)} :
       \E result \in {performAIDetection(enhancedR)} :
           /\ analyses' = [clearInterval(analyses, progressInterval)
                              EXCEPT ![i].pc = "displayed",
                                     ![i].endedAt = now,
                                     ![i].result = result]
           /\ ui' = [ui EXCEPT !.progressFill = 100,
                               !.confidenceBadge =
                                   IF result.isAIGenerated THEN "ai-generated"
                                   ELSE "human-made",
                               !.confidenceValue = result.confidence,
                               !.analysisTime = toFixed1(result.analysisTime),
                               !.resultOf = i]
    /\ UNCHANGED <<currentImage, analysisStartTime, now, progressInterval,
                   alerts, detectorVars, scanVars>>

\* time passes
Tick ==
    /\ now < MaxTicks * TickMs
    /\ now' = now + TickMs
    /\ UNCHANGED <<analyses, currentImage, analysisStartTime,
                   progressInterval, ui, alerts, detectorVars, scanVars>>

\* the callbacks that continue analysis i
AnalysisStep(i) == ReaderOnload(i) \/ SimulationDone(i) \/ ImageOnload(i)

UINext ==
    \/ \E f \in DOMAIN UIFiles : ProcessImage(f)
    \/ \E i \in 1..MaxAnalyses : ReaderOnload(i)
    \/ \E i \in 1..MaxAnalyses : ProgressTick(i)
    \/ \E i \in 1..MaxAnalyses : SimulationDone(i)
    \/ \E i \in 1..MaxAnalyses : ImageOnload(i)
    \/ Tick

UISpec == UIInit /\ [][UINext]_vars

-----------------------------------------------------------------------------
(* AIImageDetector: the pixel scanners, run on a buffer of bytes *)

\* reading past either end of an array yields undefined
Undefined == 0 - 1

\* pixelData[i], i counted from 0
elementAt(pixelData, i) ==
    IF i >= 0 /\ i < Len(pixelData) THEN pixelData[i + 1] ELSE Undefined

\* a || b on numbers: undefined and 0 are falsy
orElse(a, b) == IF a = Undefined \/ a = 0 THEN b ELSE a

MathAbs(x) == IF x < 0 THEN 0 - x ELSE x

\* the sum of f[x] over the x in S
RECURSIVE sumOver(_, _)
sumOver(f, S) ==
    IF S = {} THEN 0
    ELSE LET x == CHOOSE y \in S : TRUE
         IN  f[x] + sumOver(f, S \ {x})

\* analyzePixelPatterns: the indexes i at which a sample is taken
pixelSamples(pixelData) ==
    {i \in 0..(Len(pixelData) - 1) : i % 16 = 0 /\ i + 12 < Len(pixelData)}

\* analyzePixelPatterns: diff of the sample at index i
sampleDiff(pixelData, i) ==
    LET r     == pixelData[i + 1]
        g     == pixelData[i + 2]
        b     == pixelData[i + 3]
        prevR == orElse(elementAt(pixelData, i - 4), r)
        prevG == orElse(elementAt(pixelData, i - 3), g)
        prevB == orElse(elementAt(pixelData, i - 2), b)
    IN  MathAbs(r - prevR) + MathAbs(g - prevG) + MathAbs(b - prevB)

analyzePixelPatterns(pixelData) ==
    LET samples == pixelSamples(pixelData)
        smoothnessScore ==
            Cardinality({i \in samples : sampleDiff(pixelData, i) < 10})
        uniformityScore ==
            Cardinality({i \in samples :
                /\ MathAbs(pixelData[i + 1] - pixelData[i + 2]) < 5
                /\ MathAbs(pixelData[i + 2] - pixelData[i + 3]) < 5})
        gradientVariance ==
            sumOver([i \in samples |-> sampleDiff(pixelData, i)], samples)
        totalSamples == Cardinality(samples)
    IN  [smoothness       |-> Div(smoothnessScore, totalSamples),
         uniformity       |-> Div(uniformityScore, totalSamples),
         gradientVariance |-> Div(gradientVariance, totalSamples)]

\* analyzeNoisePattern: the indexes i at which a sample is taken
noiseSamples(pixelData) ==
    {i \in 0..(Len(pixelData) - 1) : i % 16 = 0 /\ i + 8 < Len(pixelData)}

analyzeNoisePattern(pixelData) ==
    LET taken == noiseSamples(pixelData)
        diff  == [i \in taken |-> MathAbs(pixelData[i + 1] - pixelData[i + 5])]
        noiseLevel         == sumOver(diff, taken)
        highFrequencyNoise == Cardinality({i \in taken : diff[i] > 20})
        samples            == Cardinality(taken)
    IN  [averageNoise       |-> Div(noiseLevel, samples),
         highFrequencyRatio |-> Div(highFrequencyNoise, samples),
         overallNoiseLevel  |-> Div(noiseLevel, samples)]

\* the offsets i of calculateBlockVariance and detectQuantizationPattern
\* that fall inside the buffer
blockOffsets(pixelData, startIndex, blockSize) ==
    {i \in 0..(blockSize * 4 - 1) :
        i % 4 = 0 /\ startIndex + i < Len(pixelData)}

\* the mean of (v - mean)^2 over the red values v of the block, computed as
\* (count * sum of v^2 - sum^2) / count^2
calculateBlockVariance(pixelData, startIndex, blockSize) ==
    LET offsets == blockOffsets(pixelData, startIndex, blockSize)
        count   == Cardinality(offsets)
        sum     == sumOver([i \in offsets |-> pixelData[startIndex + i + 1]],
                           offsets)
        squares == sumOver([i \in offsets |-> pixelData[startIndex + i + 1]
                                               * pixelData[startIndex + i + 1]],
                           offsets)
    IN  IF count = 0 THEN R(0, 1)
        ELSE R(count * squares - sum * sum, count * count)

detectQuantizationPattern(pixelData, startIndex, blockSize) ==
    LET offsets      == blockOffsets(pixelData, startIndex, blockSize)
        values       == Cardinality(offsets)
        uniqueValues ==
            Cardinality({pixelData[startIndex + i + 1] : i \in offsets})
    IN  R(values - uniqueValues, values)

\* detectCompressionArtifacts: the start indexes of the blocks it evaluates
countedBlocks(pixelData) ==
    {i \in 0..(Len(pixelData) - 1) : i % 256 = 0 /\ i + 256 < Len(pixelData)}

detectCompressionArtifacts(pixelData) ==
    LET blocks == countedBlocks(pixelData)
        blockArtifacts ==
            Cardinality({i \in blocks :
                LT(calculateBlockVariance(pixelData, i, 64), R(50, 1))})
        quantizationArtifacts ==
            Cardinality({i \in blocks :
                GT(detectQuantizationPattern(pixelData, i, 64), R(7, 10))})
        totalBlocks == Cardinality(blocks)
    IN  [blockArtifacts        |-> Div(blockArtifacts, totalBlocks),
         quantizationArtifacts |-> Div(quantizationArtifacts, totalBlocks),
         overallScore          |-> Div(blockArtifacts + quantizationArtifacts,
                                       2 * totalBlocks)]

getGradientX(pixelData, x, y, width) ==
    LET idx   == (y * width + x) * 4
        left  == orElse(elementAt(pixelData, idx - 4), 0)
        right == orElse(elementAt(pixelData, idx + 4), 0)
    IN  right - left

getGradientY(pixelData, x, y, width) ==
    LET idx    == (y * width + x) * 4
        top    == orElse(elementAt(pixelData, idx - width * 4), 0)
        bottom == orElse(elementAt(pixelData, idx + width * 4), 0)
    IN  bottom - top

\* analyzeEdges: gx * gx + gy * gy at the interior pixel (x, y); the
\* magnitude is its square root
magnitudeSquared(pixelData, x, y, width) ==
    getGradientX(pixelData, x, y, width) * getGradientX(pixelData, x, y, width)
  + getGradientY(pixelData, x, y, width) * getGradientY(pixelData, x, y, width)

\* the ratio is taken the other way round: edges per sharp edge
analyzeEdgesRatioInverted(pixelData, width, height) ==
    LET interior   == (1..(width - 2)) \X (1..(height - 2))
        edges      == {p \in interior :
                          magnitudeSquared(pixelData, p[1], p[2], width) > 30 * 30}
        edgeCount  == Cardinality(edges)
        sharpEdges == Cardinality({p \in edges :
                          magnitudeSquared(pixelData, p[1], p[2], width) > 100 * 100})
    IN  [edgeCount      |-> edgeCount,
         sharpEdges     |-> sharpEdges,
         edgeDensity    |-> Div(edgeCount, width * height),
         sharpnessRatio |-> Div(edgeCount, MathMax(sharpEdges, 1))]

analyzeEdges(pixelData, width, height) ==
    LET interior   == (1..(width - 2)) \X (1..(height - 2))
        edges      == {p \in interior :
                          magnitudeSquared(pixelData, p[1], p[2], width) > 30 * 30}
        edgeCount  == Cardinality(edges)
        sharpEdges == Cardinality({p \in edges :
                          magnitudeSquared(pixelData, p[1], p[2], width) > 100 * 100})
    IN  [edgeCount      |-> edgeCount,
         sharpEdges     |-> sharpEdges,
         edgeDensity    |-> Div(edgeCount, width * height),
         sharpnessRatio |-> Div(sharpEdges, MathMax(edgeCount, 1))]

-----------------------------------------------------------------------------
(* The scanners called on buffers of a few colours *)

MaxPatternLen == 3

\* pixels R,G,B,A: black, a dark grey, a light grey, pure red
Palette == { <<0, 0, 0, 255>>, <<3, 3, 3, 255>>, <<200, 200, 200, 255>>,
             <<255, 0, 0, 255>> }

\* the pixels that repeat along the buffer
Patterns == UNION {[1..k -> Palette] : k \in 1..MaxPatternLen}

\* number of pixels of a buffer: around the first samples and around one
\* and two blocks of 64 pixels
PixelCounts == {1, 3, 4, 8, 9, 63, 64, 65, 128, 129}

\* the buffer of n pixels that repeats pattern
bufferOf(pattern, n) ==
    [k \in 1..(4 * n) |->
        pattern[(((k - 1) \div 4) % Len(pattern)) + 1][((k - 1) % 4) + 1]]

Buffers == {bufferOf(pattern, n) : pattern \in Patterns, n \in PixelCounts}

\* widths of the images the buffers are the pixels of
Widths == {1, 2, 3, 8, 9, 13}

ScanInit ==
    /\ DetectorIdle
    /\ CombineIdle
    /\ PageIdle
    /\ data \in Buffers
    /\ imageData \in [width : Widths, height : 1..(Len(data) \div 4),
                      dataDefined : {TRUE}]
    /\ imageData.width * imageData.height * 4 = Len(data)
    /\ scan = NoScan

AnalyzePixelPatterns ==
    /\ scan.pixelAnalysis = Null
    /\ scan' = [scan EXCEPT !.pixelAnalysis = analyzePixelPatterns(data)]
    /\ UNCHANGED <<data, detectorVars, uiVars>>

DetectCompressionArtifacts ==
    /\ scan.compressionArtifacts = Null
    /\ scan' = [scan EXCEPT
                   !.compressionArtifacts = detectCompressionArtifacts(data)]
    /\ UNCHANGED <<data, detectorVars, uiVars>>

AnalyzeNoisePattern ==
    /\ scan.noisePattern = Null
    /\ scan' = [scan EXCEPT !.noisePattern = analyzeNoisePattern(data)]
    /\ UNCHANGED <<data, detectorVars, uiVars>>

AnalyzeEdges ==
    /\ scan.edgeAnalysis = Null
    /\ scan' = [scan EXCEPT !.edgeAnalysis =
                   analyzeEdges(data, imageData.width, imageData.height)]
    /\ UNCHANGED <<data, detectorVars, uiVars>>

ScanNext ==
    \/ AnalyzePixelPatterns
    \/ DetectCompressionArtifacts
    \/ AnalyzeNoisePattern
    \/ AnalyzeEdges

ScanSpec == ScanInit /\ [][ScanNext]_vars

-----------------------------------------------------------------------------
(* Properties of the detector *)

lowerFileName == toLowerCase(file.name)

hasAigen == includes(lowerFileName, strAigen)

hasOg == includes(lowerFileName, strOg)

InRange(x) == x \in 0..100

\* C1: every result the pipeline produces (local, external, combined, the
\* one enhancedAIDetection hands on, fallback included) has a confidence
\* within [0,100], and the AI score is within [0,100], whatever the image,
\* the file name and the score the remote endpoint answers with.
C1_ConfidenceWithinRange ==
    /\ results.local # Null =>
          InRange(results.local.confidence) /\ InRange(results.local.aiScore)
    /\ results.external # Null => InRange(results.external.confidence)
    /\ results.combined # Null => InRange(results.combined.confidence)
    /\ InRange(results.confidence)
    /\ enhanced # Null => InRange(enhanced.confidence)

\* C2: a file name containing "aigen" in any letter case gives an AI score
\* of exactly 95, whatever the pixel features, the dimensions and the other
\* patterns the name matches.
C2_AigenScores95 ==
    (results.local # Null /\ hasAigen) => results.local.aiScore = 95

C2_Witness ==
    /\ results.local # Null
    /\ file.name = <<"l","o","g","o","_","A","i","G","e","n">>
    /\ additiveScore(results.local.features) # 95
    /\ results.local.aiScore = 95

\* C3 as stated: a file name containing "og" in any letter case gives an AI
\* score of exactly 5, whatever else the name matches.
C3_OgScores5 ==
    (results.local # Null /\ hasOg) => results.local.aiScore = 5

\* C3 amended: a file name containing "og" in any letter case and not
\* containing "aigen" gives an AI score of exactly 5, whatever the pixel
\* features, the dimensions and the other patterns the name matches.
C3_OgWithoutAigenScores5 ==
    (results.local # Null /\ hasOg /\ ~hasAigen) => results.local.aiScore = 5

C3_Witness ==
    /\ results.local # Null
    /\ file.name = <<"d","a","l","l","e","_","d","o","g">>
    /\ additiveScore(results.local.features) > 50
    /\ results.local.aiScore = 5

\* C4: in every result of localDetection and of fallbackDetection the
\* isAIGenerated flag is true exactly when the score computed for that
\* result is strictly greater than 50.
C4_FlagIsScoreAbove50 ==
    /\ results.local # Null =>
          /\ results.local.aiScore = calculateAIScore(results.local.features)
          /\ results.local.isAIGenerated <=> results.local.aiScore > 50
    /\ (enhanced # Null /\ enhanced.method = "fallback") =>
          (enhanced.isAIGenerated <=>
              fallbackScore(file.name, pix.fallbackSmoothness) > 50)

C4_Witness ==
    /\ results.local # Null
    /\ results.local.aiScore = 50
    /\ ~results.local.isAIGenerated

\* the points of the additive rules, each rule taken on its own
rulePoints ==
    LET dims      == analyzeDimensions(imageData.width, imageData.height)
        indicator == analyzeFileName(file.name).indicator
    IN  (IF GT(pix.smoothness, R(7, 10)) THEN 25 ELSE 0)
      + (IF LT(pix.noise, R(5, 1)) THEN 15 ELSE 0)
      + (IF GT(pix.sharpness, R(3, 10)) THEN 15 ELSE 0)
      + (IF GT(pix.entropy, R(75, 10)) THEN 10 ELSE 0)
      + (IF GT(pix.compression, R(6, 10)) THEN 10 ELSE 0)
      + (IF dims.isStandardAI \/ dims.isMultipleOf64 THEN 15 ELSE 0)
      + (IF indicator = "ai" THEN 30 ELSE 0)
      - (IF indicator = "real" THEN 20 ELSE 0)
      + (IF LT(pix.frequency, R(3, 10)) THEN 10 ELSE 0)

\* C5: when the file name contains neither "aigen" nor "og", the AI score is
\* the sum of the points of exactly the rules whose condition holds, clamped
\* to [0,100]; each rule contributes independently of the others.
C5_ScoreIsClampedSumOfRules ==
    (results.local # Null /\ ~hasAigen /\ ~hasOg) =>
        results.local.aiScore =
            (IF rulePoints < 0 THEN 0
             ELSE IF rulePoints > 100 THEN 100 ELSE rulePoints)

C5_Witness ==
    /\ results.local # Null
    /\ ~hasAigen /\ ~hasOg
    /\ rulePoints = 130
    /\ results.local.aiScore = 100

\* the external call was made and left no result
externalFailed == config.enabled /\ extCalls >= 1 /\ results.external = Null

\* C8: when external detection is enabled and realityDefenderDetection fails
\* (no API key, transport failure, non-success status), detectAIImage still
\* completes without an error, its confidence, verdict and details are those
\* of the local result alone, and the external call is made exactly once.
C8_ExternalFailureFallsBackToLocal ==
    externalFailed =>
        /\ extCalls = 1
        /\ detectError = NoError
        /\ pc \in {"combine", "detectReturned", "done"}
        /\ pc = "combine" => ENABLED CombineAndReturn
        /\ pc \in {"detectReturned", "done"} =>
              /\ results.combined = results.local
              /\ results.confidence = results.local.confidence
              /\ results.isAIGenerated = results.local.isAIGenerated
              /\ results.details = results.local.details

C8_Witness ==
    /\ externalFailed
    /\ config.apiKey
    /\ fetchCalls = 1
    /\ pc = "detectReturned"
    /\ results.confidence = results.local.confidence

\* C9: if a feature extractor or scorer throws during detectAIImage, then
\* detectAIImage throws the error 'AI detection failed', hands no result
\* object to its caller (nothing was stored in it either), the external
\* adapter is not invoked and localDetection is not called again.
C9_ExtractorFailureIsGenericError ==
    (localThrows(file, imageData, fault) /\ pc # "detect") =>
        /\ detectError = "AI detection failed"
        /\ pc \in {"detectThrew", "done"}
        /\ results = InitialResults
        /\ localCalls = 1
        /\ extCalls = 0
        /\ fetchCalls = 0
        /\ enhanced # Null => enhanced.method = "fallback"

C9_Witness ==
    /\ fault
    /\ config.enabled /\ config.apiKey
    /\ pc = "detectThrew"
    /\ detectError = "AI detection failed"
    /\ extCalls = 0

\* the lower-cased file name contains one of the patterns
matchesAny(patterns) ==
    \E k \in DOMAIN patterns : includes(lowerFileName, patterns[k])

\* C11: analyzeFileName classifies a name as 'real' whenever it contains a
\* real-list substring (also when it contains AI-list substrings), as 'ai'
\* only when it contains an AI-list substring and no real-list substring,
\* and as 'neutral' only when it contains neither; letter case is ignored.
C11_RealTakesPrecedence ==
    results.local # Null =>
        LET indicator == results.local.features.fileNameAnalysis.indicator
            matchesAI   == matchesAny(aiPatterns.fileNames)
            matchesReal == matchesAny(aiPatterns.realPatterns)
        IN  /\ indicator \in {"real", "ai", "neutral"}
            /\ indicator = "real" <=> matchesReal
            /\ indicator = "ai" <=> (matchesAI /\ ~matchesReal)
            /\ indicator = "neutral" <=> (~matchesAI /\ ~matchesReal)

C11_Witness ==
    /\ results.local # Null
    /\ file.name = <<"r","e","a","l","_","a","i">>
    /\ Len(results.local.features.fileNameAnalysis.aiIndicators) > 0
    /\ results.local.features.fileNameAnalysis.indicator = "real"

\* the confidence before clamping, from the inputs of the run
rawConfidence ==
    60 + (IF matchesAny(aiPatterns.fileNames) \/ matchesAny(aiPatterns.realPatterns)
          THEN 20 ELSE 0)
       + (IF <<imageData.width, imageData.height>> \in
                {<<512, 512>>, <<1024, 1024>>, <<2048, 2048>>,
                 <<512, 768>>, <<768, 512>>, <<1024, 1536>>}
          THEN 10 ELSE 0)
       + (IF GT(pix.smoothness, R(8, 10)) THEN 10 ELSE 0)

\* C12: the local confidence is min(max(60 + 20*[indicator not neutral]
\* + 10*[isStandardAI] + 10*[smoothness > 0.8], 65), 98): it is always
\* within [65,98] and the AI score has no part in it.
C12_LocalConfidenceFormula ==
    results.local # Null =>
        /\ results.local.confidence =
              (IF rawConfidence < 65 THEN 65
               ELSE IF rawConfidence > 98 THEN 98 ELSE rawConfidence)
        /\ results.local.confidence \in 65..98

C12_Witness ==
    /\ results.local # Null
    /\ rawConfidence = 80
    /\ results.local.aiScore <= 50
    /\ results.local.confidence = 80

\* C15: isStandardAI is true exactly for the whitelisted (width, height)
\* pairs (true for (512,512), false for (513,512)); isMultipleOf64 and
\* isPowerOfTwo are computed from width and height alone, whatever
\* isStandardAI is.
C15_DimensionFlagsIndependent ==
    results.local # Null =>
        LET flags == results.local.features.dimensionAnalysis
            w     == imageData.width
            h     == imageData.height
        IN  /\ flags.isStandardAI <=>
                  <<w, h>> \in {<<512, 512>>, <<1024, 1024>>, <<2048, 2048>>,
                                <<512, 768>>, <<768, 512>>, <<1024, 1536>>}
            /\ (w = 512 /\ h = 512) => flags.isStandardAI
            /\ (w = 513 /\ h = 512) => ~flags.isStandardAI
            /\ flags.isMultipleOf64 <=> (w % 64 = 0 /\ h % 64 = 0)
            /\ flags.isPowerOfTwo <=>
                  (w \in {2^k : k \in 0..30} /\ h \in {2^k : k \in 0..30})

C15_Witness ==
    /\ results.local # Null
    /\ imageData.width = 640 /\ imageData.height = 640
    /\ ~results.local.features.dimensionAnalysis.isStandardAI
    /\ results.local.features.dimensionAnalysis.isMultipleOf64
    /\ ~results.local.features.dimensionAnalysis.isPowerOfTwo

\* C16: a request goes to the remote endpoint only when external detection
\* is enabled and an API key is configured: with the flag false
\* realityDefenderDetection is never called, and with the flag true but no
\* key it fails before any request is made.
C16_RequestOnlyWithFlagAndKey ==
    /\ ~config.enabled => (extCalls = 0 /\ fetchCalls = 0)
    /\ (config.enabled /\ ~config.apiKey) =>
          (fetchCalls = 0 /\ results.external = Null)
    /\ fetchCalls > 0 => (config.enabled /\ config.apiKey)

C16_Witness ==
    /\ config.enabled /\ ~config.apiKey
    /\ extCalls = 1
    /\ fetchCalls = 0
    /\ pc = "combine"

C22_MethodTagTellsExternal ==
    (pc = "done" /\ detectError = NoError) =>
        /\ enhanced.method = "combined" => results.external # Null
        /\ results.external = Null => enhanced.method = "local"

\* the verdict of the primary path on the inputs of the run
primaryVerdict ==
    calculateAIScore(extractAdvancedFeatures(file, imageData, pix)) > 50

\* C23: for a file name containing "aigen" or "og", whatever the buffer and
\* whatever other AI-list or real-list substrings the name contains,
\* fallbackDetection gives the verdict of the primary path
\* (calculateAIScore > 50).
C23_FallbackAgreesWithPrimary ==
    (enhanced # Null /\ enhanced.method = "fallback" /\ (hasAigen \/ hasOg)) =>
        (enhanced.isAIGenerated <=> primaryVerdict)

-----------------------------------------------------------------------------
(* Properties of combineResults *)

\* C6: with local confidence L and verdict vL and external confidence E and
\* verdict vE, combineResults returns confidence round(0.4*L + 0.6*E) and
\* verdict 0.4*(vL ? L : 100-L) + 0.6*(vE ? E : 100-E) > 50; L = 80/true
\* with E = 60/false gives confidence 68 and verdict true.
C6_WeightedCombination ==
    (cOut # Null /\ cE # Null) =>
        LET L == cL.confidence
            E == cE.confidence
            a == IF cL.isAIGenerated THEN L ELSE 100 - L
            b == IF cE.isAIGenerated THEN E ELSE 100 - E
        IN  /\ cOut.confidence = (4 * L + 6 * E + 5) \div 10
            /\ cOut.isAIGenerated <=> 4 * a + 6 * b > 500
            /\ (L = 80 /\ cL.isAIGenerated /\ E = 60 /\ ~cE.isAIGenerated) =>
                  cOut.confidence = 68 /\ cOut.isAIGenerated

C6_Witness ==
    /\ cOut # Null /\ cE # Null
    /\ cL.confidence = 80 /\ cL.isAIGenerated
    /\ cE.confidence = 60 /\ ~cE.isAIGenerated
    /\ cOut.confidence = 68 /\ cOut.isAIGenerated

\* C7: combineResults called without an external result returns the local
\* result itself, every field unchanged.
C7_NoExternalIsIdentity ==
    (cOut # Null /\ cE = Null) => cOut = cL

C7_Witness ==
    /\ cOut # Null /\ cE = Null
    /\ cOut.method = "local"
    /\ cOut.aiScore = 95
    /\ cOut.confidence = 98

-----------------------------------------------------------------------------
(* Properties of the page *)

\* showError was called from the catch block of analyzeImage
failureReported ==
    \E k \in DOMAIN alerts : alerts[k] = "Analysis failed. Please try again."

\* C10: when the image file cannot be decoded, the analysis started by
\* analyzeImage ends in a reported failure and displays no result; it does
\* not stay pending forever: as long as no failure is reported, a callback
\* that continues the analysis is still to come.
C10_DecodeFailureIsReported ==
    \A i \in DOMAIN analyses :
        (~UIFiles[analyses[i].file].decodable /\ analyses[i].pc # "rejected") =>
            /\ analyses[i].pc # "displayed"
            /\ failureReported \/ ENABLED AnalysisStep(i)

\* what the local pipeline yields for the file of analysis i
ownResult(i) ==
    LET f == UIFiles[analyses[i].file]
    IN  localDetection(pageFile(f), pageImageData(f), f.pixels)

\* C17: when analyses overlap, the elapsed time each one reports is measured
\* from its own start, and the result it shows is computed from its own
\* file only: nothing one analysis writes is read by the other.
C17_AnalysesAreIndependent ==
    \A i \in DOMAIN analyses :
        analyses[i].pc = "displayed" =>
            /\ analyses[i].result.analysisTime =
                  analyses[i].endedAt - analyses[i].startedAt
            /\ analyses[i].result.confidence = ownResult(i).confidence
            /\ analyses[i].result.isAIGenerated = ownResult(i).isAIGenerated

-----------------------------------------------------------------------------
(* Properties of the pixel scanners *)

\* a and b are the same number
sameNumber(a, b) == ~IsNaN(a) /\ ~IsNaN(b) /\ a.n * b.d = b.n * a.d

\* every pixel of the buffer equals the first one
uniformBuffer ==
    /\ Len(data) >= 4
    /\ \A k \in 1..Len(data) : data[k] = data[((k - 1) % 4) + 1]

\* C14: for a buffer in which all pixels are identical, of any colour and of
\* any size for which a sample is taken, analyzePixelPatterns returns
\* smoothness 1.0 and uniformity 1.0 and analyzeNoisePattern returns a mean
\* noise of 0.
C14_UniformBufferScans ==
    uniformBuffer =>
        /\ (scan.pixelAnalysis # Null /\ pixelSamples(data) # {}) =>
              /\ sameNumber(scan.pixelAnalysis.smoothness, R(1, 1))
              /\ sameNumber(scan.pixelAnalysis.uniformity, R(1, 1))
        /\ (scan.noisePattern # Null /\ noiseSamples(data) # {}) =>
              sameNumber(scan.noisePattern.averageNoise, R(0, 1))

\* the sum of the absolute R, G and B differences between the pixel at
\* index i and the pixel right before it; the first pixel has none before it
precedingDelta(i) ==
    IF i = 0 THEN 0
    ELSE MathAbs(data[i + 1] - data[i - 3])
       + MathAbs(data[i + 2] - data[i - 2])
       + MathAbs(data[i + 3] - data[i - 1])

\* C19: the delta analyzePixelPatterns uses for every sample after the
\* first is the sum of the absolute R, G and B differences to the preceding
\* pixel, whatever the channel values 0..255 of that pixel are (0 is an
\* ordinary value): the mean delta and the smooth count it returns are
\* those of these deltas.
C19_DeltaToPrecedingPixel ==
    scan.pixelAnalysis # Null =>
        LET samples == pixelSamples(data)
        IN  /\ scan.pixelAnalysis.gradientVariance =
                  Div(sumOver([i \in samples |-> precedingDelta(i)], samples),
                      Cardinality(samples))
            /\ scan.pixelAnalysis.smoothness =
                  Div(Cardinality({i \in samples : precedingDelta(i) < 10}),
                      Cardinality(samples))

\* the start indexes of the complete 256-byte blocks of the buffer
completeBlocks ==
    {i \in 0..(Len(data) - 1) : i % 256 = 0 /\ i + 256 <= Len(data)}

\* C20: detectCompressionArtifacts evaluates every complete 256-byte block:
\* it counts floor(length/256) blocks, the last one included when the
\* length is a multiple of 256, and both ratios are divided by that count.
C20_EveryCompleteBlockCounted ==
    scan.compressionArtifacts # Null =>
        /\ Cardinality(countedBlocks(data)) = Len(data) \div 256
        /\ scan.compressionArtifacts.blockArtifacts =
              Div(Cardinality({i \in completeBlocks :
                      LT(calculateBlockVariance(data, i, 64), R(50, 1))}),
                  Len(data) \div 256)
        /\ scan.compressionArtifacts.quantizationArtifacts =
              Div(Cardinality({i \in completeBlocks :
                      GT(detectQuantizationPattern(data, i, 64), R(7, 10))}),
                  Len(data) \div 256)

\* C21: analyzeEdges never counts more sharp edges than edges, so
\* sharpnessRatio = sharpEdges / max(edgeCount, 1) is within [0,1] and is 0
\* when no edge is found, and edgeDensity = edgeCount / (width * height) is
\* within [0,1], for every image.
C21_EdgeRatiosWithinUnit ==
    scan.edgeAnalysis # Null =>
        LET edge == scan.edgeAnalysis
            zero == R(0, 1)
            one  == R(1, 1)
        IN  /\ edge.sharpEdges <= edge.edgeCount
            /\ ~LT(edge.sharpnessRatio, zero) /\ ~GT(edge.sharpnessRatio, one)
            /\ ~IsNaN(edge.sharpnessRatio)
            /\ edge.edgeCount = 0 => sameNumber(edge.sharpnessRatio, zero)
            /\ ~LT(edge.edgeDensity, zero) /\ ~GT(edge.edgeDensity, one)
            /\ ~IsNaN(edge.edgeDensity)

C21_Witness ==
    /\ scan.edgeAnalysis # Null
    /\ scan.edgeAnalysis.sharpEdges > 0
    /\ scan.edgeAnalysis.edgeCount > scan.edgeAnalysis.sharpEdges

-----------------------------------------------------------------------------
(* Properties of the page under overlapping analyses *)

\* the analyses processImage let through
startedAnalyses == {i \in DOMAIN analyses : analyses[i].pc # "rejected"}

\* the analysis of the most recently selected image
lastStarted == CHOOSE i \in startedAnalyses : \A j \in startedAnalyses : j <= i

\* C24: after any sequence of selections, a second one before the first
\* analysis has finished included, the result shown once all started
\* analyses have finished is the result of the most recently selected
\* image, the one held in currentImage.
C24_LatestSelectionShown ==
    (startedAnalyses # {}
        /\ \A i \in startedAnalyses : analyses[i].pc = "displayed") =>
            /\ currentImage = analyses[lastStarted].file
            /\ ui.previewImage = currentImage
            /\ ui.confidenceValue = ownResult(lastStarted).confidence
            /\ ui.confidenceBadge =
                  (IF ownResult(lastStarted).isAIGenerated THEN "ai-generated"
                   ELSE "human-made")

\* C25: the progress bar is at most 90% while the page shows an analysis
\* as running; once displayResults has set it to 100% it stays there until
\* the next resetAnalysisUI; and the interval of every analysis is cleared
\* by the time its result is displayed, also when analyses overlap.
C25_ProgressBarSettles ==
    /\ ui.confidenceBadge = "analyzing" => ui.progressFill <= 90
    /\ ui.confidenceBadge \in {"ai-generated", "human-made"} =>
          ui.progressFill = 100
    /\ \A i \in DOMAIN analyses :
          analyses[i].pc = "displayed" => analyses[i].timer # "running"

====
